---- MODULE Spec2Model ----
(***************************************************************************)
(* A model of the two numeric kernels of the repository:                   *)
(*   - the Julia-set grid builder, the escape-time kernel and the timefn   *)
(*     wrapper of "Part 1_Benchmarking and Profiling";                     *)
(*   - the ParticleSimulator of "Part 4_Matrix and Vector Computations".   *)
(*                                                                         *)
(* Numbers.  The program computes on IEEE-754 doubles, and so does the     *)
(* model: a float is a record [sign, man, exp] with a mantissa of 53 bits, *)
(* and +, -, *, / and the square root are rounded to the nearest double,   *)
(* ties to even, as the hardware rounds them.  A mantissa is too wide for  *)
(* one integer of the checker and is written in limbs of 14 bits.  The     *)
(* two functions of the C library the program reaches, pow (float ** 2,    *)
(* float ** 0.5) and hypot (abs of a complex), are not correctly rounded   *)
(* and differ between machines: the model lets them return either          *)
(* neighbour of an exact result that lies close to the middle between two  *)
(* doubles.  The range is that of a double: results too large become an   *)
(* infinity, results too small lose bits or become zero, and NaN is a      *)
(* value.  Where Python raises instead (a float divided by zero, a pow or  *)
(* a hypot that overflows, int of an infinity), an expression gives the    *)
(* record [exc, val] of the exception and the value.  A complex number is  *)
(* the pair <<re, im>> of two doubles.                                     *)
(***************************************************************************)
EXTENDS Integers, Sequences, FiniteSets, TLC

VARIABLES
    \* ---- benchmarking_and_profiling.py ----
    x1, x2, y1, y2,      \* module globals: the area of complex space
    c_real, c_imag,      \* module globals: the Julia parameter
    pc,                  \* position of the running call
    caller,              \* "none", "calc_pure_python" or "direct"
    fn,                  \* the callable timefn was applied to
    args,                \* the positional arguments handed to measure_time
    kwargs,              \* the keyword arguments handed to measure_time
    return_output,       \* calc_pure_python's flag
    x, y,                \* calc_pure_python's coordinate lists
    zs, cs,              \* calc_pure_python's grid
    fn_calls,            \* how many times the wrapped function was entered
    fn_args,             \* the positional arguments the wrapped function received
    fn_kwargs,           \* the keyword arguments the wrapped function received
    output,              \* the kernel's output list
    i,                   \* the kernel's loop index (slots written so far)
    writes,              \* history: how many times each slot was assigned
    order,               \* history: the slots in the order they were assigned
    fn_result,           \* what the wrapped function returned
    fn_exc,              \* the exception the wrapped function raised
    clock,               \* time.time()
    start, end,          \* measure_time's two timestamps
    events,              \* history: what measure_time did, in order
    printed,             \* the "@timefn: ... took" line was printed
    wrapper_result,      \* what measure_time returned to its caller
    result,              \* what the outermost call returned
    exc,                 \* the exception that reached the outermost caller
    \* ---- ParticleSim.py ----
    particles,           \* the caller's list of Particle records, also self.particles
    np_coords,           \* per record: x and y are numpy.float64 scalars (line 53)
    has_r_i,             \* hasattr(self, 'r_i')
    r_i,                 \* self.r_i: one row <<x, y>> per particle
    ang_vel_i,           \* self.ang_vel_i
    last_call,           \* history: the last evolve call, the records at its entry
    nops,                \* history: operations on the simulator so far
    created,             \* history: the records the simulator was constructed on
    test_pc,             \* test_evolve: "ready" or "done"
    test_particles,      \* test_evolve's own particles
    test_exc,            \* the exception test_evolve ended with
    \* ---- calc_pure_python's locals, lines 28-39, one loop pass at a time ----
    width,               \* desired_width
    step_x, step_y,      \* x_step, y_step
    x_coord, y_coord     \* the two loop variables, xcoord and ycoord

juliaVars == <<x1, x2, y1, y2, c_real, c_imag, fn, kwargs, fn_kwargs, pc, caller, args,
               return_output,
               x, y, zs, cs, fn_calls, fn_args, output, i, writes, order,
               fn_result, fn_exc, clock, start, end, events, printed, wrapper_result,
               result, exc>>

particleVars == <<particles, np_coords, has_r_i, r_i, ang_vel_i, last_call, nops, created,
                  test_pc, test_particles, test_exc>>

gridVars == <<width, step_x, step_y, x_coord, y_coord>>

vars == <<juliaVars, particleVars, gridVars>>

\* Python values: None, a list, an unset timestamp, no exception
None == <<"None">>

PyList(s) == <<"list", s>>

ListOf(v) == v[2]

NoTime == 0 - 1

NoExc == "NoException"

\* lines 67-69: the one function of the program that timefn decorates,
\* calculate_z_serial_purepython; a function has a __name__
Kernel == [kind |-> "kernel", has_name |-> TRUE]

\* ---- bounds of the model ----
MaxLen == 2          \* longest zs / cs handed to the kernel directly
MaxIter == 3         \* largest maxiter
MaxWidth == 3        \* largest desired_width of a grid handed to the kernel
MaxOps == 3          \* evolve calls and caller updates on one simulator
MaxDuration == 25    \* longest duration, in millionths: two and a half timesteps
MaxGridWidth == 10   \* largest desired_width of the grids built pass by pass

Max(a, b) == IF a >= b THEN a ELSE b

Min(a, b) == IF a <= b THEN a ELSE b

RECURSIVE Sum(_)
Sum(s) == IF s = <<>> THEN 0 ELSE Head(s) + Sum(Tail(s))

SeqsUpTo(S, n) == UNION {[1..k -> S] : k \in 0..n}

\* ------------------------------------------------------------------------
\* Natural numbers of any size: the limbs of 14 bits, the lowest first, with
\* no zero limb at the top; <<>> is 0
\* ------------------------------------------------------------------------
LimbBits == 14

Base == 2 ^ LimbBits

RECURSIVE NatTrim(_)
NatTrim(a) ==
    IF a # <<>> /\ a[Len(a)] = 0 THEN NatTrim(SubSeq(a, 1, Len(a) - 1)) ELSE a

Limb(a, k) == IF k <= Len(a) THEN a[k] ELSE 0

RECURSIVE NatFromInt(_)
NatFromInt(n) == IF n = 0 THEN <<>> ELSE <<n % Base>> \o NatFromInt(n \div Base)

RECURSIVE NatToInt(_)
NatToInt(a) == IF a = <<>> THEN 0 ELSE Head(a) + Base * NatToInt(Tail(a))

RECURSIVE AddCarry(_, _, _, _)
AddCarry(a, b, k, carry) ==
    IF k > Len(a) /\ k > Len(b) THEN NatFromInt(carry)
    ELSE LET s == Limb(a, k) + Limb(b, k) + carry
         IN  <<s % Base>> \o AddCarry(a, b, k + 1, s \div Base)

NatAdd(a, b) == AddCarry(a, b, 1, 0)

RECURSIVE SubBorrow(_, _, _, _)
SubBorrow(a, b, k, borrow) ==
    IF k > Len(a) THEN <<>>
    ELSE LET d == a[k] - Limb(b, k) - borrow
         IN  <<d % Base>> \o SubBorrow(a, b, k + 1, IF d < 0 THEN 1 ELSE 0)

\* a - b, for a >= b
NatSub(a, b) == NatTrim(SubBorrow(a, b, 1, 0))

RECURSIVE CmpFrom(_, _, _)
CmpFrom(a, b, k) ==
    IF k = 0 THEN 0
    ELSE IF a[k] < b[k] THEN 0 - 1
    ELSE IF a[k] > b[k] THEN 1
    ELSE CmpFrom(a, b, k - 1)

\* -1, 0 or 1 as a is below, equal to or above b
NatCmp(a, b) ==
    IF Len(a) < Len(b) THEN 0 - 1
    ELSE IF Len(a) > Len(b) THEN 1
    ELSE CmpFrom(a, b, Len(a))

NatLess(a, b) == NatCmp(a, b) < 0

RECURSIVE MulCarry(_, _, _, _)
MulCarry(a, k, j, carry) ==
    IF j > Len(a) THEN NatFromInt(carry)
    ELSE LET p == a[j] * k + carry
         IN  <<p % Base>> \o MulCarry(a, k, j + 1, p \div Base)

\* a * k for 0 <= k <= Base
NatMulSmall(a, k) == IF k = 0 THEN <<>> ELSE MulCarry(a, k, 1, 0)

\* a * Base^n
NatShiftLimbs(a, n) == IF a = <<>> THEN a ELSE [j \in 1..n |-> 0] \o a

\* the sum of the products a[j] * b[k + 1 - j] for j in lo..hi
RECURSIVE ColumnSum(_, _, _, _, _)
ColumnSum(a, b, k, lo, hi) ==
    IF lo > hi THEN 0 ELSE a[lo] * b[k + 1 - lo] + ColumnSum(a, b, k, lo + 1, hi)

RECURSIVE MulColumns(_, _, _, _)
MulColumns(a, b, k, carry) ==
    IF k > Len(a) + Len(b) - 1 THEN NatFromInt(carry)
    ELSE LET t == ColumnSum(a, b, k, Max(1, k + 1 - Len(b)), Min(k, Len(a))) + carry
         IN  <<t % Base>> \o MulColumns(a, b, k + 1, t \div Base)

\* a * b, one of them of at most 7 limbs
NatMul(a, b) == IF a = <<>> \/ b = <<>> THEN <<>> ELSE NatTrim(MulColumns(a, b, 1, 0))

RECURSIVE DivSmallFrom(_, _, _, _)
DivSmallFrom(a, d, k, rem) ==
    IF k = 0 THEN [q |-> <<>>, r |-> rem]
    ELSE LET t == rem * Base + a[k]
             rest == DivSmallFrom(a, d, k - 1, t % d)
         IN  [q |-> Append(rest.q, t \div d), r |-> rest.r]

\* a divided by d, 1 <= d <= Base: the quotient and the remainder
NatDivSmall(a, d) ==
    LET res == DivSmallFrom(a, d, Len(a), 0)
    IN  [q |-> NatTrim(res.q), r |-> res.r]

\* a * 2^n
NatShiftLeft(a, n) == NatShiftLimbs(NatMulSmall(a, 2 ^ (n % LimbBits)), n \div LimbBits)

\* a divided by 2^n, the fraction dropped
NatShiftRight(a, n) ==
    IF n \div LimbBits >= Len(a) THEN <<>>
    ELSE NatDivSmall(SubSeq(a, n \div LimbBits + 1, Len(a)), 2 ^ (n % LimbBits)).q

\* a modulo 2^n
NatLowBits(a, n) ==
    IF n \div LimbBits >= Len(a) THEN a
    ELSE NatTrim(Append(SubSeq(a, 1, n \div LimbBits),
                        a[n \div LimbBits + 1] % (2 ^ (n % LimbBits))))

RECURSIVE BitLenSmall(_)
BitLenSmall(n) == IF n = 0 THEN 0 ELSE 1 + BitLenSmall(n \div 2)

NatBitLen(a) ==
    IF a = <<>> THEN 0 ELSE LimbBits * (Len(a) - 1) + BitLenSmall(a[Len(a)])

NatOdd(a) == a # <<>> /\ a[1] % 2 = 1

\* the largest digit with digit * b <= cur, from an estimate that is not below it
RECURSIVE DigitDown(_, _, _)
DigitDown(cur, b, est) ==
    IF NatLess(cur, NatMulSmall(b, est)) THEN DigitDown(cur, b, est - 1) ELSE est

\* one digit of a long division: cur < b * Base, the top limb of b at least Base / 2
QuotientDigit(cur, b) ==
    LET n == Len(b)
        est == IF Len(cur) < n THEN 0
               ELSE IF Len(cur) = n THEN cur[n] \div b[n]
               ELSE Min(Base - 1, (cur[n + 1] * Base + cur[n]) \div b[n])
    IN  DigitDown(cur, b, est)

\* long division, the limbs a[1..k] still to bring down
RECURSIVE LongDiv(_, _, _, _)
LongDiv(a, b, k, rem) ==
    IF k = 0 THEN [q |-> <<>>, r |-> rem]
    ELSE LET cur == NatTrim(<<a[k]>> \o rem)
             digit == QuotientDigit(cur, b)
             rest == LongDiv(a, b, k - 1, NatSub(cur, NatMulSmall(b, digit)))
         IN  [q |-> Append(rest.q, digit), r |-> rest.r]

\* a divided by b > 0: the quotient and the remainder
NatDivMod(a, b) ==
    LET s == LimbBits - BitLenSmall(b[Len(b)])
        num == NatShiftLeft(a, s)
        den == NatShiftLeft(b, s)
        top == Len(num) - Len(den) + 1
        res == LongDiv(num, den, top, SubSeq(num, top + 1, Len(num)))
    IN  IF Len(num) < Len(den) THEN [q |-> <<>>, r |-> a]
        ELSE [q |-> NatTrim(res.q), r |-> NatShiftRight(res.r, s)]

\* the largest r in lo..hi with r * r <= s, for s below 2^30
RECURSIVE SqrtSearch(_, _, _)
SqrtSearch(s, lo, hi) ==
    IF lo = hi THEN lo
    ELSE LET mid == (lo + hi + 1) \div 2
         IN  IF mid * mid <= s THEN SqrtSearch(s, mid, hi) ELSE SqrtSearch(s, lo, mid - 1)

\* the largest d with (twice + d) * d <= rem, from an estimate that is not below it
RECURSIVE RootDigitDown(_, _, _)
RootDigitDown(rem, twice, est) ==
    IF NatLess(rem, NatMulSmall(NatAdd(twice, NatFromInt(est)), est))
    THEN RootDigitDown(rem, twice, est - 1)
    ELSE est

\* the square root digit by digit, the pairs of limbs a[1..2k] still to
\* bring down: r is the root of the part above them, rem what is left of it
RECURSIVE RootDigits(_, _, _, _)
RootDigits(a, k, r, rem) ==
    IF k = 0 THEN [root |-> r, rem |-> rem]
    ELSE LET cur == NatTrim(<<a[2 * k - 1], a[2 * k]>> \o rem)
             twice == NatShiftLimbs(NatAdd(r, r), 1)
             d == IF r = <<>> THEN SqrtSearch(NatToInt(cur), 0, Base - 1)
                  ELSE RootDigitDown(cur, twice,
                           QuotientDigit(NatShiftRight(cur, 1), NatShiftLimbs(r, 1)))
         IN  RootDigits(a, k - 1, <<d>> \o r,
                        NatSub(cur, NatMulSmall(NatAdd(twice, NatFromInt(d)), d)))

\* the whole part of the square root of a, and whether it is the root exactly
NatSqrt(a) ==
    IF a = <<>> THEN [root |-> <<>>, exact |-> TRUE]
    ELSE LET len == NatBitLen(a)
             full == 2 * LimbBits * ((len + 2 * LimbBits - 1) \div (2 * LimbBits))
             up == (full - len) \div 2
             n == NatShiftLeft(a, 2 * up)
             digits == RootDigits(n, Len(n) \div 2, <<>>, <<>>)
         IN  [root |-> NatShiftRight(digits.root, up), exact |-> digits.rem = <<>>]

\* ------------------------------------------------------------------------
\* IEEE-754 doubles: [sign, man, exp] is sign * man * 2^exp, sign 1 or -1.
\* A normal double has a mantissa of exactly 53 bits and MinExp <= exp <=
\* MaxExp; a subnormal one has a shorter mantissa and exp = MinExp; zero has
\* man = <<>> and exp = 0.  The exponent above MaxExp is kept for the
\* infinities (man = <<>>) and for NaN (man = <<1>>), as in the format.
\* ------------------------------------------------------------------------
Precision == 53

MaxExp == 971

MinExp == 0 - 1074

Double(s, m, e) == [sign |-> s, man |-> m, exp |-> e]

DZero == Double(1, <<>>, 0)

DNegZero == Double(0 - 1, <<>>, 0)

DInf(s) == Double(s, <<>>, MaxExp + 1)

DNaN == Double(1, <<1>>, MaxExp + 1)

IsFinite(a) == a.exp <= MaxExp

IsInf(a) == a.exp > MaxExp /\ a.man = <<>>

IsNaN(a) == a.exp > MaxExp /\ a.man # <<>>

IsZero(a) == a.exp <= MaxExp /\ a.man = <<>>

\* a result beyond the largest double is an infinity
Ranged(d) == IF d.exp > MaxExp THEN DInf(d.sign) ELSE d

\* sign * n * 2^e for n of at most 53 bits and e >= MinExp, exactly
Exact(s, n, e) ==
    IF n = <<>> THEN Double(s, <<>>, 0)
    ELSE LET up == Min(Precision - NatBitLen(n), e - MinExp)
         IN  Ranged(Double(s, NatShiftLeft(n, up), e - up))

\* sign * n * 2^e for n of 53 bits, or the 54-bit 2^53 a carry has made
Carried(s, n, e) ==
    IF NatBitLen(n) > Precision THEN Ranged(Double(s, NatShiftRight(n, 1), e + 1))
    ELSE Exact(s, n, e)

\* how many low bits of n * 2^e fall away when it is rounded: those beyond
\* 53 bits, and those below the exponent of the subnormal doubles
Cut(n, e) == Max(NatBitLen(n) - Precision, MinExp - e)

\* sign * (n + f) * 2^e, 0 <= f < 1, with cut > 0 low bits to lose: the
\* double below it in magnitude, and the one above
Below(s, n, e, cut) == Exact(s, NatShiftRight(n, cut), e + cut)

Above(s, n, e, cut) == Carried(s, NatAdd(NatShiftRight(n, cut), <<1>>), e + cut)

\* the nearest of the two is the one above; ties go to the even mantissa;
\* more is TRUE when f > 0
RoundsUp(n, cut, more) ==
    LET cmp == NatCmp(NatLowBits(n, cut), NatShiftLeft(<<1>>, cut - 1))
    IN  cmp > 0 \/ (cmp = 0 /\ (more \/ NatOdd(NatShiftRight(n, cut))))

RoundCut(s, n, e, cut, more) ==
    IF cut <= 0 THEN Exact(s, n, e)
    ELSE IF RoundsUp(n, cut, more) THEN Above(s, n, e, cut)
    ELSE Below(s, n, e, cut)

\* sign * (n + f) * 2^e rounded to the nearest double, ties to even
RoundNearestEven(s, n, e, more) == RoundCut(s, n, e, Cut(n, e), more)

\* float(n) for an integer n
DFromInt(n) == IF n >= 0 THEN Exact(1, NatFromInt(n), 0) ELSE Exact(0 - 1, NatFromInt(0 - n), 0)

\* -a; the sign of NaN is not told apart
DNeg(a) == IF IsNaN(a) THEN a ELSE [a EXCEPT !.sign = 0 - a.sign]

DAbs(a) == [a EXCEPT !.sign = 1]

\* -1, 0 or 1 as |a| is below, equal to or above |b|, neither NaN
MagCmp(a, b) ==
    IF IsZero(a) THEN (IF IsZero(b) THEN 0 ELSE 0 - 1)
    ELSE IF IsZero(b) THEN 1
    ELSE IF a.exp < b.exp THEN 0 - 1
    ELSE IF a.exp > b.exp THEN 1
    ELSE NatCmp(a.man, b.man)

\* a < b; every comparison with NaN is false
DLess(a, b) ==
    IF IsNaN(a) \/ IsNaN(b) THEN FALSE
    ELSE IF IsZero(a) /\ IsZero(b) THEN FALSE
    ELSE IF a.sign # b.sign THEN a.sign < b.sign
    ELSE IF a.sign = 1 THEN MagCmp(a, b) < 0
    ELSE MagCmp(a, b) > 0

\* beyond this distance of the exponents the smaller operand of a sum is
\* below a sixteenth of a unit in the last place of the larger
FarApart == 60

\* a + b for |a| >= |b|, both finite, neither zero
AddOrdered(a, b) ==
    LET d == a.exp - b.exp
    IN  IF d > FarApart THEN a
        ELSE LET big == NatShiftLeft(a.man, d)
             IN  IF a.sign = b.sign
                 THEN RoundNearestEven(a.sign, NatAdd(big, b.man), b.exp, FALSE)
                 ELSE IF big = b.man THEN DZero
                 ELSE RoundNearestEven(a.sign, NatSub(big, b.man), b.exp, FALSE)

\* a + b
DAdd(a, b) ==
    IF IsNaN(a) \/ IsNaN(b) THEN DNaN
    ELSE IF IsInf(a) THEN (IF IsInf(b) /\ a.sign # b.sign THEN DNaN ELSE a)
    ELSE IF IsInf(b) THEN b
    ELSE IF IsZero(a) /\ IsZero(b) THEN (IF a.sign = b.sign THEN a ELSE DZero)
    ELSE IF IsZero(a) THEN b
    ELSE IF IsZero(b) THEN a
    ELSE IF MagCmp(a, b) >= 0 THEN AddOrdered(a, b)
    ELSE AddOrdered(b, a)

\* a - b
DSub(a, b) == DAdd(a, DNeg(b))

\* a * b
DMul(a, b) ==
    IF IsNaN(a) \/ IsNaN(b) THEN DNaN
    ELSE IF IsInf(a) \/ IsInf(b)
    THEN (IF IsZero(a) \/ IsZero(b) THEN DNaN ELSE DInf(a.sign * b.sign))
    ELSE IF IsZero(a) \/ IsZero(b) THEN Double(a.sign * b.sign, <<>>, 0)
    ELSE RoundNearestEven(a.sign * b.sign, NatMul(a.man, b.man), a.exp + b.exp, FALSE)

\* the bits a quotient is computed to before it is rounded
DivGuardBits == 56

\* a / b for finite a and b, neither zero: the mantissa of a is brought to
\* 53 bits and DivGuardBits more before the division
DivFinite(a, b) ==
    LET up == Precision - NatBitLen(a.man) + DivGuardBits
        d == NatDivMod(NatShiftLeft(a.man, up), b.man)
    IN  RoundNearestEven(a.sign * b.sign, d.q, a.exp - b.exp - up, d.r # <<>>)

\* a / b as the hardware divides: a zero divisor gives an infinity, or NaN
\* for 0 / 0
DDiv(a, b) ==
    IF IsNaN(a) \/ IsNaN(b) THEN DNaN
    ELSE IF IsInf(a) THEN (IF IsInf(b) THEN DNaN ELSE DInf(a.sign * b.sign))
    ELSE IF IsInf(b) THEN Double(a.sign * b.sign, <<>>, 0)
    ELSE IF IsZero(b) THEN (IF IsZero(a) THEN DNaN ELSE DInf(a.sign * b.sign))
    ELSE IF IsZero(a) THEN Double(a.sign * b.sign, <<>>, 0)
    ELSE DivFinite(a, b)

\* the bits a root is computed to before it is rounded
GuardBits == 70

\* the square root of n * 2^e, n > 0 and e even, before rounding:
\* root.n * 2^root.e with root.n of at least GuardBits bits, more when the
\* root is not exact
RootOfNat(n, e) ==
    LET short == Max(0, 2 * GuardBits - NatBitLen(n))
        up == short + (short % 2)
        r == NatSqrt(NatShiftLeft(n, up))
    IN  [n |-> r.root, e |-> (e - up) \div 2, more |-> ~r.exact]

\* the square root of the finite double a > 0 before rounding
RootOf(a) == RootOfNat(NatShiftLeft(a.man, a.exp % 2), a.exp - (a.exp % 2))

\* the square root, correctly rounded; NaN for a negative number
DSqrt(a) ==
    IF IsNaN(a) \/ IsZero(a) THEN a
    ELSE IF a.sign < 0 THEN DNaN
    ELSE IF IsInf(a) THEN a
    ELSE LET root == RootOf(a) IN RoundNearestEven(1, root.n, root.e, root.more)

\* int(a) for a finite a: the whole part, towards zero
DTrunc(a) ==
    IF IsZero(a) THEN 0
    ELSE a.sign * NatToInt(IF a.exp >= 0 THEN NatShiftLeft(a.man, a.exp)
                           ELSE NatShiftRight(a.man, 0 - a.exp))

\* the decimal literal num / den as the parser reads it: the nearest double
Decimal(num, den) == DDiv(DFromInt(num), DFromInt(den))

\* ------------------------------------------------------------------------
\* Python's float: an expression gives a value or raises an exception
\* ------------------------------------------------------------------------
Returned(v) == [exc |-> NoExc, val |-> v]

\* no value comes with an exception: val is a filler
Raised(e) == [exc |-> e, val |-> DNaN]

\* a / b: a zero divisor raises, whatever a is
PyDiv(a, b) == IF IsZero(b) THEN Raised("ZeroDivisionError") ELSE Returned(DDiv(a, b))

\* int(a): the infinities and NaN have no whole part
PyInt(a) ==
    IF IsInf(a) THEN [exc |-> "OverflowError", val |-> 0]
    ELSE IF IsNaN(a) THEN [exc |-> "ValueError", val |-> 0]
    ELSE [exc |-> NoExc, val |-> DTrunc(a)]

\* the C library's pow is not correctly rounded: its error stays below
\* 1/2 + 1/2^PowSlackBits of a unit in the last place, so it returns either
\* neighbour when the exact result is that close to the middle between them
PowSlackBits == 4

\* the exact result is within the slack of the middle between its neighbours
NearMiddle(n, cut) ==
    LET rem == NatLowBits(n, cut)
        half == NatShiftLeft(<<1>>, cut - 1)
        slack == IF cut >= PowSlackBits THEN NatShiftLeft(<<1>>, cut - PowSlackBits) ELSE <<>>
    IN  /\ ~NatLess(NatAdd(rem, <<1>>), NatSub(half, slack))
        /\ ~NatLess(NatAdd(half, slack), rem)

PowCut(s, n, e, cut, more) ==
    IF cut <= 0 THEN {Exact(s, n, e)}
    ELSE IF NearMiddle(n, cut) THEN {Below(s, n, e, cut), Above(s, n, e, cut)}
    ELSE {RoundCut(s, n, e, cut, more)}

\* the doubles pow may return for the exact result sign * (n + f) * 2^e;
\* an infinity among them stands for a result out of range
PowOutcomes(s, n, e, more) == PowCut(s, n, e, Cut(n, e), more)

\* float.__pow__ and complex.__abs__ turn a result out of range into an
\* OverflowError
RangeChecked(ds) == {IF IsInf(d) THEN Raised("OverflowError") ELSE Returned(d) : d \in ds}

\* a ** 2 for a float a
PowSquare(a) ==
    IF IsNaN(a) THEN {Returned(DNaN)}
    ELSE IF IsInf(a) THEN {Returned(DInf(1))}
    ELSE IF IsZero(a) THEN {Returned(DZero)}
    ELSE RangeChecked(PowOutcomes(1, NatMul(a.man, a.man), 2 * a.exp, FALSE))

\* a ** 2 for a numpy.float64 a: a result out of range is an infinity
\* (and a RuntimeWarning)
Float64Square(a) ==
    IF IsNaN(a) THEN {DNaN}
    ELSE IF IsInf(a) THEN {DInf(1)}
    ELSE IF IsZero(a) THEN {DZero}
    ELSE PowOutcomes(1, NatMul(a.man, a.man), 2 * a.exp, FALSE)

\* a ** 0.5, for a >= 0, an infinity or NaN; the same for both types
PowRoot(a) ==
    IF IsNaN(a) \/ IsInf(a) THEN {a}
    ELSE IF IsZero(a) THEN {DZero}
    ELSE LET root == RootOf(a) IN PowOutcomes(1, root.n, root.e, root.more)

\* ------------------------------------------------------------------------
\* complex arithmetic: Python's complex type, a pair of doubles
\* ------------------------------------------------------------------------
complex(re, im) == <<re, im>>

\* a * b: each product and each sum is rounded; nothing raises
CMul(a, b) ==
    <<DSub(DMul(a[1], b[1]), DMul(a[2], b[2])), DAdd(DMul(a[1], b[2]), DMul(a[2], b[1]))>>

CAdd(a, b) == <<DAdd(a[1], b[1]), DAdd(a[2], b[2])>>

\* the C library's hypot(a, b) for finite a and b, neither zero: like pow
\* it may miss the nearest double when the exact result is close to the
\* middle of two
HypotFinite(a, b) ==
    IF a.exp - b.exp > FarApart THEN {DAbs(a)}
    ELSE IF b.exp - a.exp > FarApart THEN {DAbs(b)}
    ELSE LET lo == Min(a.exp, b.exp)
             sum == NatAdd(NatShiftLeft(NatMul(a.man, a.man), 2 * (a.exp - lo)),
                           NatShiftLeft(NatMul(b.man, b.man), 2 * (b.exp - lo)))
             root == RootOfNat(sum, 2 * lo)
         IN  PowOutcomes(1, root.n, root.e, root.more)

\* abs(z) for z = complex(a, b): an infinite part gives inf, else a NaN part
\* gives nan, else hypot(a, b), and OverflowError when that is out of range
Hypot(a, b) ==
    IF IsInf(a) \/ IsInf(b) THEN {Returned(DInf(1))}
    ELSE IF IsNaN(a) \/ IsNaN(b) THEN {Returned(DNaN)}
    ELSE IF IsZero(a) THEN {Returned(DAbs(b))}
    ELSE IF IsZero(b) THEN {Returned(DAbs(a))}
    ELSE RangeChecked(HypotFinite(a, b))

\* abs(z) < 2: the answers the comparison of line 76 can give, or the
\* exception of abs
AbsLt2(z) ==
    {[exc |-> h.exc, val |-> h.exc = NoExc /\ DLess(h.val, DFromInt(2))] : h \in Hypot(z[1], z[2])}

\* ------------------------------------------------------------------------
\* the inputs of direct kernel calls
\* ------------------------------------------------------------------------
\* line 20: c_real, c_imag = -0.62772, -.42193
JuliaC == complex(DNeg(Decimal(62772, 100000)), DNeg(Decimal(42193, 100000)))

\* 1.5 * 2^1023, about 1.35e308: the modulus of Huge + Huge j is beyond
\* the largest double
Huge == Exact(1, <<3>>, 1022)

\* 0 stays inside, -1.8 leaves after one step and 1.5 after two, 2 is
\* outside from the start, and abs raises on Huge + Huge j
ZVals ==
    { complex(DZero, DZero), complex(DNeg(Decimal(18, 10)), DZero),
      complex(Decimal(15, 10), DZero), complex(DFromInt(2), DZero),
      complex(Huge, Huge) }

\* the program's parameter, and 1 + 0j, under which 0 leaves after two steps
CVals == {JuliaC, complex(DFromInt(1), DZero)}

MaxIters == (0 - 1)..MaxIter

\* the cs a direct call is tried with: as long as zs, one shorter, one longer
CsFor(zs_in) ==
    UNION {[1..k -> CVals] : k \in {Len(zs_in) - 1, Len(zs_in), Len(zs_in) + 1} \cap 0..MaxLen}

\* the callables a client decorates with timefn: one that returns and one
\* that raises, each as a function (it has a __name__) and as a
\* functools.partial or an instance with __call__ (it has none)
ClientCallables == {[kind |-> k, has_name |-> h] : k \in {"returns", "raises"}, h \in BOOLEAN}

\* the positional and keyword arguments they are called with
ClientArgs == {<<>>, <<1>>, <<1, 2>>}

ClientKwargs == {<<>>, << <<"k", 3>> >>}

\* what a client's callable returns: a value made of what it received
Echo(a, kw) == <<"echo", a, kw>>

\* what a client's callable raises
ClientError == "ValueError"

\* ------------------------------------------------------------------------
\* calculate_z_serial_purepython, line 71: output = [0] * len(zs)
\* ------------------------------------------------------------------------
Zeros(n) == [k \in 1..n |-> 0]

\* ------------------------------------------------------------------------
\* calculate_z_serial_purepython, lines 73-78: the inner while loop; the
\* counts it can end with, one for each way the abs of line 76 can round,
\* or the exception of abs, which is evaluated before n < maxiter
\* ------------------------------------------------------------------------
RECURSIVE WhileLoop(_, _, _, _)
WhileLoop(z, c, n, maxiter) ==
    UNION { IF inside.exc # NoExc THEN {[exc |-> inside.exc, val |-> n]}
            ELSE IF inside.val /\ n < maxiter
            THEN WhileLoop(CAdd(CMul(z, z), c), c, n + 1, maxiter)
            ELSE {[exc |-> NoExc, val |-> n]} : inside \in AbsLt2(z) }

\* ------------------------------------------------------------------------
\* calc_pure_python, lines 28-49: the grid
\* ------------------------------------------------------------------------
\* a / b for a float a and an int b: the value, or ZeroDivisionError
FloatDiv(a, b) == PyDiv(a, DFromInt(b))

x_step(desired_width) == FloatDiv(DSub(x2, x1), desired_width)

y_step(desired_width) == FloatDiv(DSub(y1, y2), desired_width)

\* lines 32-35: while ycoord > y1: y.append(ycoord); ycoord += y_step
RECURSIVE YLoop(_, _, _)
YLoop(ycoord, step, acc) ==
    IF DLess(y1, ycoord) THEN YLoop(DAdd(ycoord, step), step, Append(acc, ycoord)) ELSE acc

\* lines 36-39: while xcoord < x2: x.append(xcoord); xcoord += x_step
RECURSIVE XLoop(_, _, _)
XLoop(xcoord, step, acc) ==
    IF DLess(xcoord, x2) THEN XLoop(DAdd(xcoord, step), step, Append(acc, xcoord)) ELSE acc

\* lines 47-49: one row of the grid, x inner
GridRowZs(xs, ycoord) == [k \in 1..Len(xs) |-> complex(xs[k], ycoord)]

GridRowCs(xs, ycoord) == [k \in 1..Len(xs) |-> complex(c_real, c_imag)]

\* a grid built with the loops exchanged (x outer, y inner)
RECURSIVE BuildZsColumnMajor(_, _)
BuildZsColumnMajor(xs, ys) ==
    IF xs = <<>> THEN <<>>
    ELSE [k \in 1..Len(ys) |-> complex(Head(xs), ys[k])] \o BuildZsColumnMajor(Tail(xs), ys)

\* lines 46-49: y outer, x inner
RECURSIVE BuildZs(_, _)
BuildZs(xs, ys) ==
    IF ys = <<>> THEN <<>>
    ELSE GridRowZs(xs, Head(ys)) \o BuildZs(xs, Tail(ys))

\* a grid whose cs gets one entry per row instead of one per cell
RECURSIVE BuildCsPerRow(_, _)
BuildCsPerRow(xs, ys) ==
    IF ys = <<>> THEN <<>>
    ELSE <<complex(c_real, c_imag)>> \o BuildCsPerRow(xs, Tail(ys))

RECURSIVE BuildCs(_, _)
BuildCs(xs, ys) ==
    IF ys = <<>> THEN <<>>
    ELSE GridRowCs(xs, Head(ys)) \o BuildCs(xs, Tail(ys))

\* ------------------------------------------------------------------------
\* ParticleSim.py
\* ------------------------------------------------------------------------
\* evolve_python line 17, evolve_numpy line 36: timestep = 0.00001
timestep == Decimal(1, 100000)

\* test_evolve line 96: eps = 1e-5
eps == Decimal(1, 100000)

\* lines 18, 37: nsteps = int(dt / timestep), the quotient of two doubles;
\* int raises on an infinite quotient and on NaN
nsteps(dt) == PyInt(DDiv(dt, timestep))


\* ---- evolve_python, lines 21-32 ----
\* The coordinates of a record are Python floats until line 53 of
\* evolve_numpy stores elements of its array in the record: those are
\* numpy.float64 scalars, whose operators give inf or nan (and a
\* RuntimeWarning) where the operators of float raise.  np tells that the
\* coordinates of the particle are such scalars.

\* line 23: p.x**2, p.y**2
Square(a, np) == IF np THEN {Returned(d) : d \in Float64Square(a)} ELSE PowSquare(a)

\* line 23: norm = (p.x**2 + p.y**2)**0.5, three calls of pow, p.x**2 first
Norm(px, py, np) ==
    UNION { IF sx.exc # NoExc THEN {sx}
            ELSE UNION { IF sy.exc # NoExc THEN {sy}
                         ELSE {Returned(root) : root \in PowRoot(DAdd(sx.val, sy.val))}
                         : sy \in Square(py, np) }
            : sx \in Square(px, np) }

\* lines 24-25: a component of the unit direction
Direction(component, norm, np) ==
    IF np THEN Returned(DDiv(component, norm)) ELSE PyDiv(component, norm)

\* lines 28-29: timestep * p.ang_vel * v; line 48: the same product, row by row
Displacement(ang_vel, v) == DMul(DMul(timestep, DFromInt(ang_vel)), v)

\* lines 28-32: the record with both displacements added
ParticleShifted(p, v_x, v_y) ==
    [p EXCEPT !.x = DAdd(p.x, Displacement(p.ang_vel, v_x)),
              !.y = DAdd(p.y, Displacement(p.ang_vel, v_y))]

\* lines 24-25, then 28-32: nothing is stored in p before both quotients exist
ParticleDirected(p, v_x, v_y) ==
    IF v_x.exc # NoExc THEN [exc |-> v_x.exc, p |-> p]
    ELSE IF v_y.exc # NoExc THEN [exc |-> v_y.exc, p |-> p]
    ELSE [exc |-> NoExc, p |-> ParticleShifted(p, v_x.val, v_y.val)]

\* lines 24-32: one particle, one step, once its norm is computed
ParticleMoved(p, norm, np) ==
    ParticleDirected(p, Direction(DNeg(p.y), norm, np), Direction(p.x, norm, np))

\* lines 23-32: one particle, one step: the record after it and the
\* exception that ended it, if any
ParticleStep(p, np) ==
    { IF norm.exc # NoExc THEN [exc |-> norm.exc, p |-> p] ELSE ParticleMoved(p, norm.val, np)
      : norm \in Norm(p.x, p.y, np) }

\* lines 21-32: for p in self.particles; an exception leaves the particles
\* after the one that raised as they were
RECURSIVE ParticlePass(_, _)
ParticlePass(ps, nps) ==
    IF ps = <<>> THEN {[exc |-> NoExc, particles |-> <<>>]}
    ELSE UNION { IF first.exc # NoExc
                 THEN {[exc |-> first.exc, particles |-> <<first.p>> \o Tail(ps)]}
                 ELSE {[exc |-> rest.exc, particles |-> <<first.p>> \o rest.particles]
                       : rest \in ParticlePass(Tail(ps), Tail(nps))}
                 : first \in ParticleStep(Head(ps), Head(nps)) }

\* lines 20-32: for i in range(nsteps); passes counts the passes completed
RECURSIVE PythonLoop(_, _, _)
PythonLoop(ps, nps, n) ==
    IF n <= 0 THEN {[exc |-> NoExc, particles |-> ps, passes |-> 0]}
    ELSE UNION { IF pass.exc # NoExc
                 THEN {[exc |-> pass.exc, particles |-> pass.particles, passes |-> 0]}
                 ELSE {[rest EXCEPT !.passes = @ + 1] : rest \in PythonLoop(pass.particles, nps, n - 1)}
                 : pass \in ParticlePass(ps, nps) }

\* lines 17-32 once nsteps is evaluated
PythonCall(ps, nps, n) ==
    IF n.exc # NoExc THEN {[exc |-> n.exc, particles |-> ps, passes |-> 0]}
    ELSE PythonLoop(ps, nps, n.val)

\* lines 17-32: the ways the method can end
PythonResult(ps, nps, dt) == PythonCall(ps, nps, nsteps(dt))

\* ---- evolve_numpy, lines 39-53 ----
\* a numpy array holds values: each element is computed once, when the
\* array is made
Array(rows) == rows \o <<>>

\* line 40: np.array([[p.x, p.y] for p in self.particles]); of an empty
\* list it is the array of no elements and one dimension
PositionArray(ps) == Array([k \in 1..Len(ps) |-> <<ps[k].x, ps[k].y>>])

\* line 41: np.array([p.ang_vel for p in self.particles])
AngVelArray(ps) == Array([k \in 1..Len(ps) |-> ps[k].ang_vel])

\* line 44: norm_i = np.linalg.norm(self.r_i, axis=1), which is
\* sqrt(add.reduce(x * x, axis=1)): products, sum and root each correctly
\* rounded; the array of an empty particle list has one dimension, and the
\* reduction along axis 1 raises AxisError on it
NormRows(r) ==
    IF r = <<>> THEN [exc |-> "AxisError", val |-> <<>>]
    ELSE [exc |-> NoExc,
          val |-> Array([k \in 1..Len(r) |->
                            DSqrt(DAdd(DMul(r[k][1], r[k][1]), DMul(r[k][2], r[k][2])))])]

\* line 45: v_i = self.r_i[:, [1, 0]], a copy with the columns exchanged
SwapColumns(r) == Array([k \in 1..Len(r) |-> <<r[k][2], r[k][1]>>])

\* line 46: v_i[:, 0] *= -1
NegateFirstColumn(v) == Array([k \in 1..Len(v) |-> <<DMul(v[k][1], DFromInt(0 - 1)), v[k][2]>>])

\* line 47: v_i /= norm_i[:, np.newaxis]; a zero norm gives inf or nan
DivideRows(v, norm_i) ==
    Array([k \in 1..Len(v) |-> <<DDiv(v[k][1], norm_i[k]), DDiv(v[k][2], norm_i[k])>>])

\* line 48: d_i = timestep * self.ang_vel_i[:, np.newaxis] * v_i
DisplacementRows(w, v) ==
    Array([k \in 1..Len(v) |-> <<Displacement(w[k], v[k][1]), Displacement(w[k], v[k][2])>>])

\* line 49: self.r_i += d_i
AddRows(r, d) == Array([k \in 1..Len(r) |-> <<DAdd(r[k][1], d[k][1]), DAdd(r[k][2], d[k][2])>>])

\* lines 45-49: the rest of a step, once norm_i is computed
ArrayStepped(r, w, norm_i) ==
    AddRows(r, DisplacementRows(w, DivideRows(NegateFirstColumn(SwapColumns(r)), norm_i)))

\* lines 44-49 after line 44: an exception leaves self.r_i as it is
ArrayNormed(r, w, norm) ==
    IF norm.exc # NoExc THEN [exc |-> norm.exc, val |-> r]
    ELSE [exc |-> NoExc, val |-> ArrayStepped(r, w, norm.val)]

\* lines 44-49: one step
ArrayStep(r, w) == ArrayNormed(r, w, NormRows(r))

\* lines 43-49: for i in range(nsteps); passes counts the passes completed
RECURSIVE NumpyLoop(_, _, _)
NumpyAfter(step, w, n) ==
    IF step.exc # NoExc THEN [exc |-> step.exc, r_i |-> step.val, passes |-> 0]
    ELSE [NumpyLoop(step.val, w, n - 1) EXCEPT !.passes = @ + 1]

NumpyLoop(r, w, n) ==
    IF n <= 0 THEN [exc |-> NoExc, r_i |-> r, passes |-> 0]
    ELSE NumpyAfter(ArrayStep(r, w), w, n)

\* the rows written back in reverse order
WriteBackReversed(ps, r) ==
    [k \in 1..Len(ps) |-> [ps[k] EXCEPT !.x = r[Len(ps) + 1 - k][1], !.y = r[Len(ps) + 1 - k][2]]]

\* lines 52-53: for i, p in enumerate(self.particles): p.x, p.y = self.r_i[i]
WriteBack(ps, r) ==
    [k \in 1..Len(ps) |-> [ps[k] EXCEPT !.x = r[k][1], !.y = r[k][2]]]

\* lines 52-53 after the loop: the attributes the method leaves, the
\* records, and whether the write-back was reached
NumpyWritten(ps, loop, w0) ==
    [exc |-> loop.exc, has |-> TRUE, r_i |-> loop.r_i, ang_vel_i |-> w0,
     particles |-> IF loop.exc = NoExc THEN WriteBack(ps, loop.r_i) ELSE ps,
     written |-> loop.exc = NoExc, passes |-> loop.passes]

\* lines 43-53 from the arrays (r0, w0): the loop, then the write-back
NumpyFrom(ps, r0, w0, n) == NumpyWritten(ps, NumpyLoop(r0, w0, n), w0)

\* lines 36-53 once nsteps is evaluated: an exception of line 37 leaves
\* the simulator as it was; the arrays are built from the records only when
\* the attribute r_i is missing
NumpyCall(ps, has, r, w, n) ==
    IF n.exc # NoExc
    THEN [exc |-> n.exc, has |-> has, r_i |-> r, ang_vel_i |-> w, particles |-> ps,
          written |-> FALSE, passes |-> 0]
    ELSE NumpyFrom(ps, IF has THEN r ELSE PositionArray(ps),
                   IF has THEN w ELSE AngVelArray(ps), n.val)

\* lines 36-53 on a simulator whose attributes are (has, r, w)
NumpyResult(ps, has, r, w, dt) == NumpyCall(ps, has, r, w, nsteps(dt))

\* ---- the class and its test ----
\* lines 12-53: the methods ParticleSimulator defines
ParticleSimulatorMethods == {"__init__", "evolve_python", "evolve_numpy"}

\* lines 6-10: Particle(x, y, ang_vel); x and y are given in thousandths
Particle(px, py, w) == [x |-> Decimal(px, 1000), y |-> Decimal(py, 1000), ang_vel |-> w]

\* test_evolve, lines 87-89
ReferenceParticles ==
    <<Particle(300, 500, 1), Particle(0, 0 - 500, 0 - 1), Particle(0 - 100, 0 - 400, 3)>>

\* test_evolve, lines 99-106
ReferenceExpected ==
    << <<Decimal(210269, 1000000), Decimal(543863, 1000000)>>,
       <<Decimal(0 - 99334, 1000000), Decimal(0 - 490034, 1000000)>>,
       <<Decimal(191358, 1000000), Decimal(0 - 365227, 1000000)>> >>

\* test_evolve, lines 96-97: abs(a - b) < eps
fequal(a, b) == DLess(DAbs(DSub(a, b)), eps)

\* three particles, the second on the origin, where the norm of line 23
\* is zero
AroundOrigin == <<Particle(300, 500, 1), Particle(0, 0, 1), Particle(100, 100, 1)>>

\* a particle at (2^-600, 2^-600): its radius is positive and the squares
\* of its coordinates underflow to zero
Tiny == [x |-> Exact(1, <<1>>, 0 - 600), y |-> Exact(1, <<1>>, 0 - 600), ang_vel |-> 1]

\* a particle at (2^600, 1): the square of its x is beyond the largest double
Far == [x |-> Exact(1, <<1>>, 600), y |-> DFromInt(1), ang_vel |-> 1]

\* the particle sets a simulator is constructed on: those of test_evolve,
\* one particle a few hundred timesteps from the origin, no particle at
\* all, and the particles above
ParticleConfigs ==
    { ReferenceParticles, <<Particle(4, 3, 2)>>, <<>>, AroundOrigin, <<Tiny>>, <<Far>> }

\* Particle.__init__ stores the caller's floats; line 53 stores numpy scalars
PythonFloats(ps) == [k \in 1..Len(ps) |-> FALSE]
Float64s(ps) == [k \in 1..Len(ps) |-> TRUE]

\* the positions a caller moves a particle to
UpdatePositions == {<<Decimal(4, 10), Decimal(0 - 3, 10)>>}

\* the durations of the evolve calls: -0.00001, 0 and one of a few timesteps
Durations == {DNeg(timestep), DZero, Decimal(MaxDuration, 1000000)}

NoCall == <<"none">>

\* ------------------------------------------------------------------------
\* Initial state
\* ------------------------------------------------------------------------
JuliaIdle ==
    /\ pc = "idle"
    /\ caller = "none"
    /\ fn = Kernel
    /\ args = <<>>
    /\ kwargs = <<>>
    /\ fn_kwargs = <<>>
    /\ return_output = FALSE
    /\ x = <<>> /\ y = <<>> /\ zs = <<>> /\ cs = <<>>
    /\ fn_calls = 0
    /\ fn_args = <<>>
    /\ output = <<>>
    /\ i = 0
    /\ writes = <<>>
    /\ order = <<>>
    /\ fn_result = None
    /\ fn_exc = NoExc
    /\ clock = 0
    /\ start = NoTime /\ end = NoTime
    /\ events = <<>>
    /\ printed = FALSE
    /\ wrapper_result = None
    /\ result = None
    /\ exc = NoExc

\* no simulator in use
ParticleIdle ==
    /\ particles = <<>>
    /\ np_coords = <<>>
    /\ has_r_i = FALSE
    /\ r_i = <<>>
    /\ ang_vel_i = <<>>
    /\ last_call = NoCall
    /\ nops = 0
    /\ created = <<>>
    /\ test_pc = "ready"
    /\ test_particles = <<>>
    /\ test_exc = NoExc

\* calc_pure_python's locals before a call
GridIdle ==
    /\ width = 0
    /\ step_x = DZero /\ step_y = DZero
    /\ x_coord = DZero /\ y_coord = DZero

\* line 19: x1, x2, y1, y2 = -1.8, 1.8, -1.8, 1.8
\* line 20: c_real, c_imag = -0.62772, -.42193
JuliaGlobals ==
    /\ x1 = DNeg(Decimal(18, 10)) /\ x2 = Decimal(18, 10)
    /\ y1 = DNeg(Decimal(18, 10)) /\ y2 = Decimal(18, 10)
    /\ c_real = JuliaC[1] /\ c_imag = JuliaC[2]

\* the module is loaded, nothing was called yet
Init ==
    /\ JuliaGlobals
    /\ JuliaIdle
    /\ ParticleIdle
    /\ GridIdle

\* ParticleSimulator.__init__, lines 13-14, on a caller's particle list
InitParticle ==
    /\ JuliaGlobals
    /\ JuliaIdle
    /\ particles \in ParticleConfigs
    /\ np_coords = PythonFloats(particles)
    /\ created = particles
    /\ has_r_i = FALSE
    /\ r_i = <<>>
    /\ ang_vel_i = <<>>
    /\ last_call = NoCall
    /\ nops = 0
    /\ test_pc = "ready"
    /\ test_particles = <<>>
    /\ test_exc = NoExc
    /\ GridIdle

\* ------------------------------------------------------------------------
\* Actions
\* ------------------------------------------------------------------------
\* calc_pure_python, lines 28-54: build the grid and call the decorated
\* kernel; a width of 0 raises ZeroDivisionError at line 28 (a negative
\* width is left out: the loops of lines 33 and 37 would never end)
calc_pure_python(desired_width, max_iterations, ro) ==
    /\ UNCHANGED <<particleVars, step_x, step_y, x_coord, y_coord>>
    /\ pc = "idle"
    /\ width' = desired_width
    /\ caller' = "calc_pure_python"
    /\ IF x_step(desired_width).exc # NoExc
       THEN /\ exc' = x_step(desired_width).exc
            /\ pc' = "raised"
            /\ UNCHANGED <<x, y, zs, cs, args, return_output>>
       ELSE /\ \E ys \in {YLoop(y2, y_step(desired_width).val, <<>>)},
                  xs \in {XLoop(x1, x_step(desired_width).val, <<>>)} :
                   /\ y' = ys
                   /\ x' = xs
                   /\ zs' = BuildZs(xs, ys)
                   /\ cs' = BuildCs(xs, ys)
                   /\ args' = <<max_iterations, BuildZs(xs, ys), BuildCs(xs, ys)>>
            /\ return_output' = ro
            /\ pc' = "measure_time"
            /\ exc' = exc
    /\ UNCHANGED <<x1, x2, y1, y2, c_real, c_imag, fn, kwargs, fn_kwargs, fn_calls, fn_args, output, i,
                   writes, order, fn_result, fn_exc, clock, start, end, events,
                   printed, wrapper_result, result>>

\* a client calls calculate_z_serial_purepython(maxiter, zs, cs) itself
DirectCall(maxiter, zs_in, cs_in) ==
    /\ UNCHANGED <<particleVars, gridVars>>
    /\ pc = "idle"
    /\ args' = <<maxiter, zs_in, cs_in>>
    /\ caller' = "direct"
    /\ pc' = "measure_time"
    /\ UNCHANGED <<x1, x2, y1, y2, c_real, c_imag, fn, kwargs, fn_kwargs, return_output, x, y, zs, cs,
                   fn_calls, fn_args, output, i, writes, order, fn_result, fn_exc,
                   clock, start, end, events, printed, wrapper_result, result, exc>>

\* a client applies timefn to a callable of its own and calls the result:
\* measure_time(*a, **kw), lines 6-8
WrappedCall(f, a, kw) ==
    /\ UNCHANGED <<particleVars, gridVars>>
    /\ pc = "idle"
    /\ fn' = f
    /\ args' = a
    /\ kwargs' = kw
    /\ caller' = "direct"
    /\ pc' = "measure_time"
    /\ UNCHANGED <<x1, x2, y1, y2, c_real, c_imag, fn_kwargs, return_output, x, y, zs, cs,
                   fn_calls, fn_args, output, i, writes, order, fn_result, fn_exc,
                   clock, start, end, events, printed, wrapper_result, result, exc>>

\* measure_time, lines 9-10: start = time.time(); fn(*args, **kwargs) is
\* entered; the kernel begins with its line 71, output = [0] * len(zs)
MeasureStart ==
    /\ UNCHANGED <<particleVars, gridVars>>
    /\ pc = "measure_time"
    /\ start' = clock
    /\ fn_calls' = fn_calls + 1
    /\ fn_args' = args
    /\ fn_kwargs' = kwargs
    /\ events' = events \o <<"start", "call">>
    /\ IF fn = Kernel
       THEN /\ output' = Zeros(Len(args[2]))
            /\ writes' = [k \in 1..Len(args[2]) |-> 0]
            /\ i' = 0
            /\ pc' = "loop"
       ELSE /\ pc' = "called"
            /\ UNCHANGED <<output, writes, i>>
    /\ UNCHANGED <<x1, x2, y1, y2, c_real, c_imag, fn, kwargs, caller, args, return_output,
                   x, y, zs, cs, order, fn_result, fn_exc, clock, end, printed,
                   wrapper_result, result, exc>>

\* line 10, a client's callable: it takes its time, then returns a value
\* or raises
CallableRun ==
    /\ UNCHANGED <<particleVars, gridVars>>
    /\ pc = "called"
    /\ clock' = clock + 1
    /\ IF fn.kind = "raises"
       THEN /\ fn_exc' = ClientError
            /\ events' = Append(events, "raise")
            /\ pc' = "fn_raised"
            /\ UNCHANGED fn_result
       ELSE /\ fn_result' = Echo(fn_args, fn_kwargs)
            /\ events' = Append(events, "return")
            /\ pc' = "fn_returned"
            /\ UNCHANGED fn_exc
    /\ UNCHANGED <<x1, x2, y1, y2, c_real, c_imag, fn, kwargs, fn_kwargs, caller, args,
                   return_output, x, y, zs, cs, fn_calls, fn_args, output, i, writes,
                   order, start, end, printed, wrapper_result, result, exc>>

\* the kernel, lines 72-79: one pass of the for loop
KernelIter ==
    /\ UNCHANGED <<particleVars, gridVars>>
    /\ pc = "loop"
    /\ i < Len(fn_args[2])
    /\ clock' = clock + 1
    /\ IF i + 1 > Len(fn_args[3])
       THEN \* c = cs[i] raises IndexError
            /\ fn_exc' = "IndexError"
            /\ events' = Append(events, "raise")
            /\ pc' = "fn_raised"
            /\ UNCHANGED <<output, i, writes, order>>
       ELSE \E n \in WhileLoop(fn_args[2][i + 1], fn_args[3][i + 1], 0, fn_args[1]) :
                IF n.exc # NoExc
                THEN \* abs(z) raises OverflowError at line 76
                     /\ fn_exc' = n.exc
                     /\ events' = Append(events, "raise")
                     /\ pc' = "fn_raised"
                     /\ UNCHANGED <<output, i, writes, order>>
                ELSE /\ output' = [output EXCEPT ![i + 1] = n.val]
                     /\ writes' = [writes EXCEPT ![i + 1] = @ + 1]
                     /\ order' = Append(order, i + 1)
                     /\ i' = i + 1
                     /\ UNCHANGED <<fn_exc, events, pc>>
    /\ UNCHANGED <<x1, x2, y1, y2, c_real, c_imag, fn, kwargs, fn_kwargs, caller, args, return_output,
                   x, y, zs, cs, fn_calls, fn_args, fn_result, start, end, printed,
                   wrapper_result, result, exc>>

\* the kernel, line 80: return output
KernelReturn ==
    /\ UNCHANGED <<particleVars, gridVars>>
    /\ pc = "loop"
    /\ i = Len(fn_args[2])
    /\ fn_result' = PyList(output)
    /\ events' = Append(events, "return")
    /\ pc' = "fn_returned"
    /\ UNCHANGED <<x1, x2, y1, y2, c_real, c_imag, fn, kwargs, fn_kwargs, caller, args, return_output,
                   x, y, zs, cs, fn_calls, fn_args, output, i, writes, order,
                   fn_exc, clock, start, end, printed, wrapper_result, result, exc>>

\* what measure_time hands back: line 13, return result
WrapperReturn(r) == r

\* measure_time, lines 11-13: end = time.time(); print(... + fn.__name__
\* + ...); return result.  Line 12 reads fn.__name__: on a callable without
\* one it raises AttributeError, and nothing is printed or returned
MeasureEnd ==
    /\ UNCHANGED <<particleVars, gridVars>>
    /\ pc = "fn_returned"
    /\ end' = clock
    /\ IF fn.has_name
       THEN /\ printed' = TRUE
            /\ events' = events \o <<"end", "print">>
            /\ wrapper_result' = WrapperReturn(fn_result)
            /\ exc' = exc
            /\ IF caller = "direct"
               THEN /\ result' = WrapperReturn(fn_result)
                    /\ pc' = "done"
               ELSE /\ result' = result
                    /\ pc' = "assert"
       ELSE /\ events' = Append(events, "end")
            /\ exc' = "AttributeError"
            /\ pc' = "raised"
            /\ UNCHANGED <<printed, wrapper_result, result>>
    /\ UNCHANGED <<x1, x2, y1, y2, c_real, c_imag, fn, kwargs, fn_kwargs, caller, args,
                   return_output, x, y, zs, cs, fn_calls, fn_args, output, i, writes,
                   order, fn_result, fn_exc, clock, start>>

\* measure_time has no try block: an exception of fn leaves it, and
\* calc_pure_python, at once; lines 11-13 are skipped
MeasureRaise ==
    /\ UNCHANGED <<particleVars, gridVars>>
    /\ pc = "fn_raised"
    /\ exc' = fn_exc
    /\ pc' = "raised"
    /\ UNCHANGED <<x1, x2, y1, y2, c_real, c_imag, fn, kwargs, fn_kwargs, caller, args, return_output,
                   x, y, zs, cs, fn_calls, fn_args, output, i, writes, order,
                   fn_result, fn_exc, clock, start, end, events, printed,
                   wrapper_result, result>>

\* calc_pure_python, lines 62-64
CalcAssert ==
    /\ UNCHANGED <<particleVars, gridVars>>
    /\ pc = "assert"
    /\ IF Sum(ListOf(wrapper_result)) = 33219980
       THEN /\ result' = IF return_output THEN wrapper_result ELSE None
            /\ pc' = "done"
            /\ exc' = exc
       ELSE /\ exc' = "AssertionError"
            /\ pc' = "raised"
            /\ result' = result
    /\ UNCHANGED <<x1, x2, y1, y2, c_real, c_imag, fn, kwargs, fn_kwargs, caller, args, return_output,
                   x, y, zs, cs, fn_calls, fn_args, output, i, writes, order,
                   fn_result, fn_exc, clock, start, end, events, printed,
                   wrapper_result>>

Next ==
    \/ /\ pc = "idle"
       /\ \E w \in 0..MaxWidth, m \in MaxIters, ro \in BOOLEAN : calc_pure_python(w, m, ro)
    \/ /\ pc = "idle"
       /\ \E m \in MaxIters, zs_in \in SeqsUpTo(ZVals, MaxLen) :
             \E cs_in \in CsFor(zs_in) : DirectCall(m, zs_in, cs_in)
    \/ /\ pc = "idle"
       /\ \E f \in ClientCallables, a \in ClientArgs, kw \in ClientKwargs :
             WrappedCall(f, a, kw)
    \/ CallableRun
    \/ MeasureStart
    \/ KernelIter
    \/ KernelReturn
    \/ MeasureEnd
    \/ MeasureRaise
    \/ CalcAssert

Spec == Init /\ [][Next]_vars

\* ------------------------------------------------------------------------
\* Actions of the particle simulator
\* ------------------------------------------------------------------------
\* ParticleSimulator.evolve_python(dt), lines 16-32; an exception leaves
\* the records moved so far as they are
evolve_python(dt) ==
    /\ nops < MaxOps
    /\ \E out \in PythonResult(particles, np_coords, dt) :
           /\ particles' = out.particles
           /\ last_call' = <<"evolve_python", dt, particles, has_r_i, out.passes,
                             out.exc, np_coords>>
    /\ nops' = nops + 1
    /\ UNCHANGED <<np_coords, has_r_i, r_i, ang_vel_i, created, test_pc, test_particles,
                   test_exc>>
    /\ UNCHANGED <<juliaVars, gridVars>>

\* ParticleSimulator.evolve_numpy(dt), lines 35-53; the write-back stores
\* elements of the array, numpy.float64 scalars, in every record
evolve_numpy(dt) ==
    /\ nops < MaxOps
    /\ \E res \in {NumpyResult(particles, has_r_i, r_i, ang_vel_i, dt)} :
           /\ r_i' = res.r_i
           /\ ang_vel_i' = res.ang_vel_i
           /\ particles' = res.particles
           /\ has_r_i' = res.has
           /\ np_coords' = IF res.written THEN Float64s(particles) ELSE np_coords
           /\ last_call' = <<"evolve_numpy", dt, particles, has_r_i, res.passes,
                             res.exc, np_coords>>
    /\ nops' = nops + 1
    /\ UNCHANGED <<created, test_pc, test_particles, test_exc>>
    /\ UNCHANGED <<juliaVars, gridVars>>

\* the caller, who owns the records, moves particle k between two calls,
\* assigning two Python floats
CallerUpdate(k, pos) ==
    /\ nops < MaxOps
    /\ particles' = [particles EXCEPT ![k].x = pos[1], ![k].y = pos[2]]
    /\ np_coords' = [np_coords EXCEPT ![k] = FALSE]
    /\ last_call' = NoCall
    /\ nops' = nops + 1
    /\ UNCHANGED <<has_r_i, r_i, ang_vel_i, created, test_pc, test_particles, test_exc>>
    /\ UNCHANGED <<juliaVars, gridVars>>

\* test_evolve, lines 86-92: the particles and the simulator are made, and
\* simulator.evolve(0.1) looks up a method the class does not define
test_evolve ==
    /\ test_pc = "ready"
    /\ "evolve" \notin ParticleSimulatorMethods
    /\ test_particles' = ReferenceParticles
    /\ test_exc' = "AttributeError"
    /\ test_pc' = "done"
    /\ UNCHANGED <<particles, np_coords, has_r_i, r_i, ang_vel_i, last_call, nops,
                   created>>
    /\ UNCHANGED <<juliaVars, gridVars>>

NextParticle ==
    \/ \E dt \in Durations : evolve_python(dt)
    \/ \E dt \in Durations : evolve_numpy(dt)
    \/ \E k \in 1..Len(particles), pos \in UpdatePositions : CallerUpdate(k, pos)
    \/ test_evolve

SpecParticle == InitParticle /\ [][NextParticle]_vars

\* ------------------------------------------------------------------------
\* calc_pure_python, lines 28-39, one loop pass at a time
\* ------------------------------------------------------------------------
juliaRest == <<x1, x2, y1, y2, c_real, c_imag, fn, kwargs, fn_kwargs, caller, args, return_output, zs, cs,
               fn_calls, fn_args, output, i, writes, order, fn_result, fn_exc, clock,
               start, end, events, printed, wrapper_result, result>>

\* lines 28-32: the two steps, the empty lists, ycoord = y2; a width of 0
\* raises ZeroDivisionError at line 28
GridEnter(desired_width) ==
    /\ pc = "idle"
    /\ width' = desired_width
    /\ IF x_step(desired_width).exc # NoExc
       THEN /\ exc' = x_step(desired_width).exc
            /\ pc' = "raised"
            /\ UNCHANGED <<step_x, step_y, x, y, y_coord>>
       ELSE /\ step_x' = x_step(desired_width).val
            /\ step_y' = y_step(desired_width).val
            /\ x' = <<>>
            /\ y' = <<>>
            /\ y_coord' = y2
            /\ pc' = "yloop"
            /\ exc' = exc
    /\ UNCHANGED <<x_coord, juliaRest, particleVars>>

\* lines 33-35: while ycoord > y1: y.append(ycoord); ycoord += y_step
YLoopPass ==
    /\ pc = "yloop"
    /\ DLess(y1, y_coord)
    /\ y' = Append(y, y_coord)
    /\ y_coord' = DAdd(y_coord, step_y)
    /\ UNCHANGED <<pc, x, width, step_x, step_y, x_coord, exc, juliaRest, particleVars>>

\* line 33 false, line 36: xcoord = x1
YLoopExit ==
    /\ pc = "yloop"
    /\ ~DLess(y1, y_coord)
    /\ x_coord' = x1
    /\ pc' = "xloop"
    /\ UNCHANGED <<x, y, width, step_x, step_y, y_coord, exc, juliaRest, particleVars>>

\* lines 37-39: while xcoord < x2: x.append(xcoord); xcoord += x_step
XLoopPass ==
    /\ pc = "xloop"
    /\ DLess(x_coord, x2)
    /\ x' = Append(x, x_coord)
    /\ x_coord' = DAdd(x_coord, step_x)
    /\ UNCHANGED <<pc, y, width, step_x, step_y, y_coord, exc, juliaRest, particleVars>>

\* line 37 false: both lists are complete
XLoopExit ==
    /\ pc = "xloop"
    /\ ~DLess(x_coord, x2)
    /\ pc' = "lists_built"
    /\ UNCHANGED <<x, y, gridVars, exc, juliaRest, particleVars>>

NextGrid ==
    \/ \E w \in 0..MaxGridWidth : GridEnter(w)
    \/ YLoopPass
    \/ YLoopExit
    \/ XLoopPass
    \/ XLoopExit

SpecGrid == Init /\ [][NextGrid]_vars

\* ========================================================================
\* Properties of the Julia kernel, the grid and the timing wrapper (Spec)
\* ========================================================================
\* the n-th iterate of z -> z*z + c from z0, with no test in between
RECURSIVE Orbit(_, _, _)
Orbit(z0, c, n) ==
    IF n = 0 THEN z0 ELSE LET z == Orbit(z0, c, n - 1) IN CAdd(CMul(z, z), c)

\* abs(z) < 2 can come out true, can come out false
MayBeInside(z) == [exc |-> NoExc, val |-> TRUE] \in AbsLt2(z)

MayBeOutside(z) == [exc |-> NoExc, val |-> FALSE] \in AbsLt2(z)

\* n is the smallest index at which the orbit has left |z| < 2, or maxiter
IsEscapeCount(n, z0, c, maxiter) ==
    /\ n \in 0..maxiter
    /\ \A m \in 0..(n - 1) : MayBeInside(Orbit(z0, c, m))
    /\ n = maxiter \/ MayBeOutside(Orbit(z0, c, n))

\* the decorated kernel has returned
KernelReturned == fn = Kernel /\ fn_result # None

\* the decorated kernel was entered
KernelEntered == fn = Kernel /\ fn_calls > 0

\* C1: for maxiter >= 0 and equal-length zs and cs, the kernel returns at
\* every index i the smallest n at which |z_n| >= 2 on the orbit of zs[i]
\* under cs[i], or maxiter if the orbit stays inside for n < maxiter; the
\* value at i is determined by zs[i], cs[i] and maxiter alone.  No
\* exception ends such a call.
C1_EscapeCount ==
    (KernelEntered /\ fn_args[1] >= 0 /\ Len(fn_args[2]) = Len(fn_args[3])) =>
        /\ fn_exc = NoExc
        /\ KernelReturned =>
              /\ Len(ListOf(fn_result)) = Len(fn_args[2])
              /\ \A k \in 1..Len(fn_args[2]) :
                    IsEscapeCount(ListOf(fn_result)[k], fn_args[2][k], fn_args[3][k],
                                  fn_args[1])

\* C4: for desired_width > 0 the grid built by calc_pure_python has
\* len(zs) = len(cs) = len(x) * len(y), and zs and cs are handed to the
\* kernel index-aligned.
C4_GridSize ==
    (caller = "calc_pure_python" /\ width > 0) =>
        /\ Len(zs) = Len(cs)
        /\ Len(zs) = Len(x) * Len(y)
        /\ args[2] = zs /\ args[3] = cs

C4_Witness ==
    /\ caller = "calc_pure_python"
    /\ Len(x) >= 2 /\ Len(y) >= 2
    /\ Len(zs) = 4
    /\ args[2] = zs /\ args[3] = cs

\* C5: the grid of a width > 0 is row-major, y outer and x inner: zs[j * len(x) + i] is
\* complex(x[i], y[j]) (0-based); y descends strictly from y2, x ascends
\* strictly from x1; every cs entry is complex(c_real, c_imag).
C5_RowMajor ==
    (caller = "calc_pure_python" /\ width > 0) =>
        /\ \A j \in 0..(Len(y) - 1), k \in 0..(Len(x) - 1) :
              zs[j * Len(x) + k + 1] = <<x[k + 1], y[j + 1]>>
        /\ Len(x) >= 1 /\ x[1] = x1
        /\ Len(y) >= 1 /\ y[1] = y2
        /\ \A k \in 1..(Len(x) - 1) : DLess(x[k], x[k + 1])
        /\ \A k \in 1..(Len(y) - 1) : DLess(y[k + 1], y[k])
        /\ \A k \in 1..Len(cs) : cs[k] = <<c_real, c_imag>>

\* a 2 x 2 grid whose second cell differs from its third
C5_Witness ==
    /\ caller = "calc_pure_python"
    /\ Len(x) = 2 /\ Len(y) = 2
    /\ zs[2] = <<x[2], y[1]>>
    /\ zs[3] = <<x[1], y[2]>>
    /\ zs[2] # zs[3]

\* the slots are written once each, in index order: after i passes the
\* slots 1..i were assigned once, in that order, and the others are still 0
SlotLifecycle ==
    /\ Len(output) = Len(fn_args[2])
    /\ Len(writes) = Len(output)
    /\ order = [k \in 1..i |-> k]
    /\ \A k \in 1..Len(output) :
          /\ k <= i => writes[k] = 1
          /\ k > i => writes[k] = 0 /\ output[k] = 0
    /\ KernelReturned => i = Len(output) /\ fn_result = PyList(output)

\* C6: for every input the kernel returns len(zs) entries, each with
\* 0 <= count <= maxiter, every slot zero at first and written exactly
\* once, in index order, before the kernel returns.  The formula reads the
\* claim at its weakest: "every input" within the kernel's contract,
\* len(zs) = len(cs), where no exception may end the call, and the upper
\* bound as max(maxiter, 0), which 0 <= count <= maxiter implies, so that a
\* negative cap is not what refutes it.
C6_CountBounds ==
    KernelEntered =>
        /\ SlotLifecycle
        /\ \A k \in 1..Len(output) :
              0 <= output[k] /\ output[k] <= Max(fn_args[1], 0)
        /\ Len(fn_args[2]) = Len(fn_args[3]) => fn_exc = NoExc

\* the wrapped callable was entered
FnEntered == fn_calls > 0

\* the wrapped callable has returned
FnReturned == Len(events) >= 3 /\ events[3] = "return"

\* measure_time has ended, by return or by an exception
MeasureEnded == pc \in {"done", "assert", "raised"}

\* C7: measure_time is a pass-through for any callable and any positional
\* and keyword arguments: it enters fn once, with the arguments it was
\* given; it reads the clock before the call and again after fn has
\* returned; it returns fn's result; an exception of fn reaches the caller
\* as raised, with nothing read or printed after it.
C7_PassThrough ==
    /\ fn_calls <= 1
    /\ FnEntered => fn_args = args /\ fn_kwargs = kwargs /\ start # NoTime
    /\ (FnReturned /\ MeasureEnded) =>
          /\ fn_calls = 1
          /\ events = <<"start", "call", "return", "end", "print">>
          /\ end # NoTime /\ start <= end
          /\ wrapper_result = fn_result
          /\ caller = "direct" => result = fn_result /\ pc = "done" /\ exc = NoExc
    /\ fn_exc # NoExc =>
          /\ fn_calls = 1
          /\ events = <<"start", "call", "raise">>
          /\ end = NoTime /\ ~printed /\ wrapper_result = None
          /\ pc = "raised" => exc = fn_exc

\* ========================================================================
\* Properties of the particle simulator (SpecParticle)
\* ========================================================================
\* a == b: the two zeros are equal
DEq(a, b) == (IsZero(a) /\ IsZero(b)) \/ a = b

Called == last_call # NoCall

LastMethod == last_call[1]

LastDuration == last_call[2]

\* the records at the entry of the last call
Entry == last_call[3]

\* the simulator had its arrays already when the last call began
HadArrays == last_call[4]

LastPasses == last_call[5]

\* the exception the last call ended with
LastExc == last_call[6]

\* which records held numpy.float64 scalars when the last call began
EntryTypes == last_call[7]

\* what a newly constructed simulator's evolve_numpy makes of the records ps
FreshNumpy(ps, dt) == NumpyResult(ps, FALSE, <<>>, <<>>, dt)

\* every particle has two finite coordinates and a radius > 0
Valid(ps) ==
    \A k \in 1..Len(ps) :
        /\ IsFinite(ps[k].x) /\ IsFinite(ps[k].y)
        /\ ~(IsZero(ps[k].x) /\ IsZero(ps[k].y))

\* the positions agree index for index within eps
SamePositions(ps, qs) ==
    /\ Len(ps) = Len(qs)
    /\ \A k \in 1..Len(ps) : fequal(ps[k].x, qs[k].x) /\ fequal(ps[k].y, qs[k].y)

\* C2: run on newly constructed simulators over the same valid records for
\* the same duration, evolve_python and evolve_numpy both return, make the
\* same number of steps and end with positions that agree within 1e-5,
\* index for index.
C2_StrategiesAgree ==
    /\ (Called /\ LastMethod = "evolve_python" /\ Valid(Entry)) =>
          \E other \in {FreshNumpy(Entry, LastDuration)} :
              /\ LastExc = NoExc /\ other.exc = NoExc
              /\ SamePositions(particles, other.particles)
              /\ LastPasses = other.passes
    /\ (Called /\ LastMethod = "evolve_numpy" /\ ~HadArrays /\ Valid(Entry)) =>
          \A other \in PythonResult(Entry, EntryTypes, LastDuration) :
              /\ LastExc = NoExc /\ other.exc = NoExc
              /\ SamePositions(particles, other.particles)
              /\ LastPasses = other.passes

\* C3: an evolve call with a duration <= 0 makes no step and leaves x and y
\* of every record as they were at its entry, for both methods, whatever
\* calls and caller updates came before.
C3_ZeroDurationNoOp ==
    (Called /\ ~DLess(DZero, LastDuration)) =>
        /\ LastExc = NoExc
        /\ LastPasses = 0
        /\ \A k \in 1..Len(particles) :
              DEq(particles[k].x, Entry[k].x) /\ DEq(particles[k].y, Entry[k].y)

\* C8: test_evolve ends with every assertion holding: the reference
\* particles are within 1e-5 of the expected final positions.
C8_TestEvolvePasses ==
    test_pc = "done" =>
        /\ test_exc = NoExc
        /\ \A k \in 1..Len(test_particles) :
              /\ fequal(test_particles[k].x, ReferenceExpected[k][1])
              /\ fequal(test_particles[k].y, ReferenceExpected[k][2])

\* C9: the records after an evolve call are those a newly constructed
\* simulator over equal records ends with after the same call: nothing of
\* the earlier calls or updates is carried into it.
C9_NoStateCarried ==
    Called =>
        IF LastMethod = "evolve_python"
        THEN \E other \in PythonResult(Entry, EntryTypes, LastDuration) :
                 particles = other.particles /\ LastExc = other.exc
        ELSE \E other \in {FreshNumpy(Entry, LastDuration)} :
                 particles = other.particles /\ LastExc = other.exc

\* C10: the evolve calls change only x and y: every ang_vel is the one the
\* particle was created with, the list keeps its length and order, and after
\* evolve_numpy the particle at index k holds row k of the position array.
C10_OnlyPositionsChange ==
    /\ Len(particles) = Len(created)
    /\ \A k \in 1..Len(particles) :
          /\ DOMAIN particles[k] = {"x", "y", "ang_vel"}
          /\ particles[k].ang_vel = created[k].ang_vel
    /\ (Called /\ LastMethod = "evolve_numpy" /\ LastExc = NoExc) =>
          /\ Len(r_i) = Len(particles)
          /\ \A k \in 1..Len(particles) : <<particles[k].x, particles[k].y>> = r_i[k]

\* after a python call and a numpy call that each made steps: three
\* particles, all moved, the rows of the array pairwise different
C10_Witness ==
    /\ Called
    /\ LastMethod = "evolve_numpy"
    /\ LastPasses >= 1
    /\ nops >= 2
    /\ Len(particles) = 3
    /\ \A k \in 1..3 : <<particles[k].x, particles[k].y>> # <<created[k].x, created[k].y>>
    /\ r_i[1] # r_i[2] /\ r_i[2] # r_i[3] /\ r_i[1] # r_i[3]

\* ========================================================================
\* Properties of the coordinate lists (SpecGrid)
\* ========================================================================
ListsBuilt == pc = "lists_built"

\* ceil(span / step) of two positive doubles in exact arithmetic: the
\* least k with k * step >= span
CeilQuotient(span, step) ==
    LET lo == Min(span.exp, step.exp)
        d == NatDivMod(NatShiftLeft(span.man, span.exp - lo),
                       NatShiftLeft(step.man, step.exp - lo))
    IN  NatToInt(d.q) + (IF d.r = <<>> THEN 0 ELSE 1)

\* math.ceil(a)
DCeil(a) ==
    IF IsZero(a) THEN 0
    ELSE IF a.exp >= 0 THEN DTrunc(a)
    ELSE IF a.sign = 1 /\ NatLowBits(a.man, 0 - a.exp) # <<>> THEN DTrunc(a) + 1
    ELSE DTrunc(a)

\* math.ceil(span / step), the quotient taken as a double
FloatCeilQuotient(span, step) == DCeil(DDiv(span, step))

\* the list has as many elements as the ceiling says, on either reading
HasCeilLength(list, span, step) ==
    \/ Len(list) = CeilQuotient(span, step)
    \/ Len(list) = FloatCeilQuotient(span, step)

\* C11: the x list starts at x1, ascends strictly by x_step, has
\* ceil((x2 - x1) / x_step) elements and ends below x2; the y list starts at
\* y2, descends strictly by |y_step|, has ceil((y2 - y1) / |y_step|)
\* elements and ends above y1.
C11_SequenceLengths ==
    ListsBuilt =>
        /\ Len(x) >= 1 /\ x[1] = x1
        /\ \A k \in 1..(Len(x) - 1) : x[k + 1] = DAdd(x[k], step_x) /\ DLess(x[k], x[k + 1])
        /\ HasCeilLength(x, DSub(x2, x1), step_x)
        /\ DLess(x[Len(x)], x2)
        /\ Len(y) >= 1 /\ y[1] = y2
        /\ \A k \in 1..(Len(y) - 1) : y[k + 1] = DAdd(y[k], step_y) /\ DLess(y[k + 1], y[k])
        /\ HasCeilLength(y, DSub(y2, y1), DAbs(step_y))
        /\ DLess(y1, y[Len(y)])

====
